---- MODULE Spec2Model ----
(***************************************************************************)
(* Model of hcsr04_driver.c: the HC-SR04 ultrasonic sensor character       *)
(* device.  get_distance (the read handler) pulses the trigger line,       *)
(* waits on echo_wq for echo_isr to publish the echo pulse width, converts *)
(* it to centimetres and copies a text token to the caller.  hcsr04_init   *)
(* and hcsr04_exit register and release the kernel resources.              *)
(***************************************************************************)
EXTENDS Integers, Sequences, FiniteSets, TLC

(* ------------------------------ bounds --------------------------------- *)

\* read() calls issued in one behaviour, over all threads
MaxReads == 2

\* level changes of the echo line in one behaviour
MaxEdges == 2

\* advances of the monotonic clock in one behaviour
MaxTicks == 2

(* ------------------------- program constants --------------------------- *)

\* #define TIMEOUT 50 (milliseconds)
TIMEOUT == 50

\* msecs_to_jiffies(TIMEOUT), on the nanosecond clock of ktime_get()
TimeoutNs == TIMEOUT * 1000000

\* divisor of div64_s64(duration_ns, 58000ULL)
NsPerCm == 58000

\* upper limit of the range check distance_cm > 400
MaxDistance == 400

\* char buffer[64]
BufSize == 64

\* calling threads, each reading through its own open file
Threads == {1, 2}

\* an echo pulse width of 200 cm and a fraction: twice it is the largest width of 400 cm
\* but for one nanosecond
HalfRange == ((MaxDistance + 1) * NsPerCm - 2) \div 2

\* amounts by which the clock advances between two observations
Deltas == {HalfRange, TimeoutNs}

\* requested lengths (size_t len) a caller passes to read()
Lens == {0, 4, BufSize}

\* the terminating byte snprintf writes after the token
NUL == "NUL"

(* ------------------------------ state ---------------------------------- *)

VARIABLES
    mod,          \* position of module load/unload: an init step, "live", "failed", "exited"
    acquired,     \* resources acquired by hcsr04_init, in acquisition order
    released,     \* resources released so far, in release order
    trigger,      \* level of the trigger line
    echo,         \* level of the echo line
    irq_pending,  \* an edge of the echo line is latched and echo_isr has not run for it
    now,          \* ktime_get()
    nticks,       \* clock advances so far
    nedges,       \* echo level changes so far
    start_time,   \* static ktime_t start_time
    end_time,     \* static ktime_t end_time
    duration_ns,  \* static ktime_t duration_ns
    distance_cm,  \* static s64 distance_cm
    pulse_ready,  \* static bool pulse_ready
    pc,           \* per thread: position in get_distance
    off,          \* per thread: *off, the offset of the thread's open file
    len,          \* per thread: the len argument of the last call, read at line 70
    deadline,     \* per thread: expiry of the wait's timer
    reg,          \* per thread: the quotient computed at line 61, as held in a register
    nreads,       \* calls of get_distance so far
    nrets,        \* returns of get_distance so far
    wake,         \* per thread: why the wait of the current call ended
    seen,         \* per thread: edges echo_isr handled from the trigger pulse to the flag test
    d_used,       \* per thread: duration_ns as read at line 61 (NoDur: not read)
    tok,          \* per thread: buffer as formatted at line 68
    res,          \* per thread: outcome of the last call
    nret,         \* per thread: value returned by the last call
    out,          \* per thread: bytes delivered to the caller by the last call
    prev,         \* per thread: outcome of the call before the last
    calls,        \* per thread: calls of get_distance so far
    last_isr,     \* what the last invocation of echo_isr did: "R", "F" after an "R", or "F_unpaired"
    pubs,         \* publications of duration_ns by echo_isr so far
    cyc_pubs,     \* publications since the last pulse_ready = false
    cyc_cons,     \* reads of duration_ns at line 61 since the last pulse_ready = false
    src,          \* per thread: pubs when the current call read duration_ns (0: not read)
    woken         \* per thread: echo_isr handled a falling edge during the call's wait

modvars == <<mod, acquired, released>>
envvars == <<echo, irq_pending, now, nticks, nedges>>
isrvars == <<start_time, end_time, duration_ns>>
callvars == <<pc, off, len, deadline, reg, nreads, nrets>>
histvars == <<wake, d_used, tok, res, nret, out, prev>>
obsvars == <<last_isr, pubs, cyc_pubs, cyc_cons, src, woken>>
drvvars == <<trigger, envvars, isrvars, distance_cm, pulse_ready, seen, callvars, histvars,
             calls, obsvars>>

vars == <<mod, acquired, released, trigger, echo, irq_pending, now, nticks, nedges,
          start_time, end_time, duration_ns, distance_cm, pulse_ready,
          pc, off, len, deadline, reg, nreads, nrets,
          wake, seen, d_used, tok, res, nret, out, prev, calls,
          last_isr, pubs, cyc_pubs, cyc_cons, src, woken>>

\* d_used before line 61 has run in the current call
NoDur == 0 - 1

(* ------------------- hcsr04_init / hcsr04_exit ------------------------- *)

\* the calls of hcsr04_init that can fail, in program order
InitOrder == <<"gpio_to_desc_trigger", "gpio_to_desc_echo", "gpiod_direction_output",
               "gpiod_direction_input", "gpiod_to_irq", "request_irq",
               "alloc_chrdev_region", "cdev_add", "class_create", "device_create">>

\* the resource a successful call registers (gpio_to_desc, gpiod_direction_* and
\* gpiod_to_irq register nothing that has to be released)
Acquires(step) ==
    CASE step = "request_irq" -> <<"irq">>
      [] step = "alloc_chrdev_region" -> <<"chrdev_region">>
      [] step = "cdev_add" -> <<"cdev">>
      [] step = "class_create" -> <<"class">>
      [] step = "device_create" -> <<"device">>
      [] OTHER -> <<>>

\* the label a failing call jumps to ("return": a plain return of the error)
ErrLabel(step) ==
    CASE step = "request_irq" -> "err_free_irq"
      [] step = "alloc_chrdev_region" -> "err_free_irq"
      [] step = "cdev_add" -> "err_unregister_chrdev_region"
      [] step = "class_create" -> "err_cdev_del"
      [] step = "device_create" -> "err_class_destroy"
      [] OTHER -> "return"

\* the releases performed from a label to the return that follows it
ErrPath(label) ==
    CASE label = "err_free_irq" -> <<"irq">>
      [] label = "err_unregister_chrdev_region" -> <<"chrdev_region", "irq">>
      [] label = "err_cdev_del" -> <<"cdev", "chrdev_region", "irq">>
      [] label = "err_class_destroy" -> <<"class", "cdev", "chrdev_region", "irq">>
      [] OTHER -> <<>>

\* the releases of hcsr04_exit
ExitPath == <<"device", "class", "cdev", "chrdev_region", "irq">>

StepIndex(step) == CHOOSE i \in 1..Len(InitOrder) : InitOrder[i] = step

NextStep(step) ==
    IF StepIndex(step) = Len(InitOrder) THEN "live" ELSE InitOrder[StepIndex(step) + 1]

InInit == mod \notin {"live", "failed", "exited"}

Range(s) == {s[i] : i \in DOMAIN s}

\* echo_isr is installed on the echo line's interrupt
IrqRegistered == "irq" \in Range(acquired) /\ "irq" \notin Range(released)

\* one call of hcsr04_init succeeds: its resource is registered, init goes on
InitCallOk ==
    /\ InInit
    /\ acquired' = acquired \o Acquires(mod)
    /\ mod' = NextStep(mod)
    /\ UNCHANGED <<released, drvvars>>

\* one call of hcsr04_init fails: the releases of its error path, then the return
InitCallFail ==
    /\ InInit
    /\ released' = released \o ErrPath(ErrLabel(mod))
    /\ mod' = "failed"
    /\ UNCHANGED <<acquired, drvvars>>

\* hcsr04_exit: unloading is possible once no file of the device is in use
ExitCall ==
    /\ mod = "live"
    /\ \A t \in Threads : pc[t] = "idle"
    /\ released' = released \o ExitPath
    /\ mod' = "exited"
    /\ UNCHANGED <<acquired, drvvars>>

(* ------------------------ clock and echo line -------------------------- *)

\* the monotonic clock advances; only echo_isr and the wait's timer observe it, so
\* it is left at rest until the handler is installed
Tick(d) ==
    /\ IrqRegistered
    /\ nticks < MaxTicks
    /\ now' = now + d
    /\ nticks' = nticks + 1
    /\ UNCHANGED <<echo, irq_pending, nedges>>
    /\ UNCHANGED <<modvars, isrvars, trigger, distance_cm, pulse_ready, seen,
                   callvars, histvars, calls, obsvars>>

\* the echo line changes level; both edges raise the interrupt
\* (IRQF_TRIGGER_RISING | IRQF_TRIGGER_FALLING).  The interrupt is a latch: edges
\* that arrive before the handler runs are handled by one invocation, which samples
\* the level the line has by then
EchoEdge ==
    /\ IrqRegistered
    /\ nedges < MaxEdges
    /\ echo' = 1 - echo
    /\ irq_pending' = TRUE
    /\ nedges' = nedges + 1
    /\ UNCHANGED <<now, nticks>>
    /\ UNCHANGED <<modvars, isrvars, trigger, distance_cm, pulse_ready, seen,
                   callvars, histvars, calls, obsvars>>

(* ------------------------------ echo_isr ------------------------------- *)

\* positions of get_distance from the start of the trigger pulse to the test of
\* pulse_ready at line 58
Window == {"trig_lo", "reset", "wait", "check"}

MaxSeen == 3

Note(s, e) == IF Len(s) < MaxSeen THEN Append(s, e) ELSE s

\* the subtraction with its operands exchanged: start_time - end_time
ktime_sub_swapped(a, b) == b - a

\* ktime_sub(end_time, start_time)
ktime_sub(a, b) == a - b

\* echo_isr: samples the line; high records start_time, low records end_time,
\* publishes duration_ns, sets pulse_ready and wakes echo_wq
EchoISR ==
    /\ IrqRegistered
    /\ irq_pending
    /\ irq_pending' = FALSE
    /\ LET value == echo IN
        /\ IF value = 1
           THEN /\ start_time' = now
                /\ last_isr' = "R"
                /\ UNCHANGED <<end_time, duration_ns, pulse_ready, pubs, cyc_pubs, woken>>
           ELSE /\ end_time' = now
                /\ duration_ns' = ktime_sub(now, start_time)
                /\ pulse_ready' = TRUE
                /\ last_isr' = IF last_isr = "R" THEN "F" ELSE "F_unpaired"
                /\ pubs' = pubs + 1
                /\ cyc_pubs' = cyc_pubs + 1
                /\ woken' = [t \in Threads |-> woken[t] \/ pc[t] = "wait"]
                /\ UNCHANGED start_time
        /\ seen' = [t \in Threads |->
                      IF pc[t] \in Window
                      THEN Note(seen[t], IF value = 1 THEN "R" ELSE "F")
                      ELSE seen[t]]
    /\ UNCHANGED <<echo, now, nticks, nedges>>
    /\ UNCHANGED <<modvars, trigger, distance_cm, callvars, histvars, calls, cyc_cons, src>>

(* ---------------------------- get_distance ----------------------------- *)

\* errno values of the error returns
ETIMEDOUT == 110
ERANGE == 34
EFAULT == 14

Min(a, b) == IF a < b THEN a ELSE b

\* the offset test given the wrong sense: no offset counts as consumed
Consumed_never(o) == o < 0

\* if (*off > 0)
Consumed(o) == o > 0

\* a division that rounds away from zero
div64_s64_up(a, b) == IF a >= 0 THEN (a + b - 1) \div b ELSE 0 - ((b - 1 - a) \div b)

\* div64_s64: signed 64-bit division, truncating toward zero
div64_s64(a, b) == IF a >= 0 THEN a \div b ELSE 0 - ((0 - a) \div b)

\* a range check whose upper limit has a digit too many
InRange_wide(v) == ~(v < 0 \/ v > 10 * MaxDistance)

\* the negation of (distance_cm < 0 || distance_cm > 400)
InRange(v) == ~(v < 0 \/ v > MaxDistance)

DigitChars == <<"0", "1", "2", "3", "4", "5", "6", "7", "8", "9">>

RECURSIVE Digits(_)
Digits(n) ==
    IF n < 10 THEN <<DigitChars[n + 1]>>
    ELSE Digits(n \div 10) \o <<DigitChars[(n % 10) + 1]>>

\* the characters "%lld" prints
PrintLld(v) == IF v < 0 THEN <<"-">> \o Digits(0 - v) ELSE Digits(v)

\* the characters "%lldcm\n" prints
Format(v) == PrintLld(v) \o <<"c", "m", "\n">>

\* buffer after snprintf(buffer, sizeof(buffer), ...): at most sizeof(buffer) - 1
\* characters, then the terminating byte
snprintf(v) == SubSeq(Format(v), 1, Min(Len(Format(v)), BufSize - 1)) \o <<NUL>>

\* the value snprintf returns: the length of the full text
buffer_len(v) == Len(Format(v))

\* to_copy = min(len, (size_t)(buffer_len + 1))
to_copy(n, v) == Min(n, buffer_len(v) + 1)

\* the values a read of the static distance_cm can give thread t: the store of
\* line 61 kept in a register, or memory, which another read may have overwritten
ReadDistance(t) == {reg[t], distance_cm}

\* the return of get_distance in thread t
Return(t, kind, n, bytes) ==
    /\ pc' = [pc EXCEPT ![t] = "idle"]
    /\ res' = [res EXCEPT ![t] = kind]
    /\ nret' = [nret EXCEPT ![t] = n]
    /\ out' = [out EXCEPT ![t] = bytes]
    /\ deadline' = [deadline EXCEPT ![t] = 0]
    /\ reg' = [reg EXCEPT ![t] = 0]
    /\ nrets' = nrets + 1

\* the entry without "*off = 0": a consumed offset stays consumed
ReadEnter_keep(t) ==
    /\ mod = "live"
    /\ pc[t] = "idle"
    /\ nreads < MaxReads
    /\ nreads' = nreads + 1
    /\ calls' = [calls EXCEPT ![t] = calls[t] + 1]
    /\ prev' = [prev EXCEPT ![t] = res[t]]
    /\ wake' = [wake EXCEPT ![t] = "none"]
    /\ seen' = [seen EXCEPT ![t] = <<>>]
    /\ len' = [len EXCEPT ![t] = 0]
    /\ d_used' = [d_used EXCEPT ![t] = NoDur]
    /\ tok' = [tok EXCEPT ![t] = <<>>]
    /\ src' = [src EXCEPT ![t] = 0]
    /\ woken' = [woken EXCEPT ![t] = FALSE]
    /\ IF Consumed(off[t])
       THEN /\ UNCHANGED off
            /\ Return(t, "eof", 0, <<>>)
       ELSE /\ pc' = [pc EXCEPT ![t] = "trig_hi"]
            /\ res' = [res EXCEPT ![t] = "running"]
            /\ nret' = [nret EXCEPT ![t] = 0]
            /\ out' = [out EXCEPT ![t] = <<>>]
            /\ UNCHANGED <<off, deadline, reg, nrets>>
    /\ UNCHANGED <<modvars, envvars, isrvars, trigger, distance_cm, pulse_ready,
                   last_isr, pubs, cyc_pubs, cyc_cons>>

\* entry of get_distance (lines 37-44): a consumed offset is reset and the call
\* returns 0; otherwise the measurement starts
ReadEnter(t) ==
    /\ mod = "live"
    /\ pc[t] = "idle"
    /\ nreads < MaxReads
    /\ nreads' = nreads + 1
    /\ calls' = [calls EXCEPT ![t] = calls[t] + 1]
    /\ prev' = [prev EXCEPT ![t] = res[t]]
    /\ wake' = [wake EXCEPT ![t] = "none"]
    /\ seen' = [seen EXCEPT ![t] = <<>>]
    /\ len' = [len EXCEPT ![t] = 0]
    /\ d_used' = [d_used EXCEPT ![t] = NoDur]
    /\ tok' = [tok EXCEPT ![t] = <<>>]
    /\ src' = [src EXCEPT ![t] = 0]
    /\ woken' = [woken EXCEPT ![t] = FALSE]
    /\ IF Consumed(off[t])
       THEN /\ off' = [off EXCEPT ![t] = 0]
            /\ Return(t, "eof", 0, <<>>)
       ELSE /\ pc' = [pc EXCEPT ![t] = "trig_hi"]
            /\ res' = [res EXCEPT ![t] = "running"]
            /\ nret' = [nret EXCEPT ![t] = 0]
            /\ out' = [out EXCEPT ![t] = <<>>]
            /\ UNCHANGED <<off, deadline, reg, nrets>>
    /\ UNCHANGED <<modvars, envvars, isrvars, trigger, distance_cm, pulse_ready,
                   last_isr, pubs, cyc_pubs, cyc_cons>>

\* gpiod_set_value(trigger, 1)
TriggerHigh(t) ==
    /\ pc[t] = "trig_hi"
    /\ trigger' = 1
    /\ pc' = [pc EXCEPT ![t] = "trig_lo"]
    /\ UNCHANGED <<modvars, envvars, isrvars, distance_cm, pulse_ready, seen,
                   off, len, deadline, reg, nreads, nrets, histvars, calls, obsvars>>

\* udelay(10); gpiod_set_value(trigger, 0)
TriggerLow(t) ==
    /\ pc[t] = "trig_lo"
    /\ trigger' = 0
    /\ pc' = [pc EXCEPT ![t] = "reset"]
    /\ UNCHANGED <<modvars, envvars, isrvars, distance_cm, pulse_ready, seen,
                   off, len, deadline, reg, nreads, nrets, histvars, calls, obsvars>>

\* a wait that starts without clearing pulse_ready
ResetReady_skip(t) ==
    /\ pc[t] = "reset"
    /\ deadline' = [deadline EXCEPT ![t] = now + TimeoutNs]
    /\ pc' = [pc EXCEPT ![t] = "wait"]
    /\ cyc_pubs' = 0
    /\ cyc_cons' = 0
    /\ UNCHANGED <<modvars, envvars, isrvars, trigger, distance_cm, pulse_ready, seen,
                   off, len, reg, nreads, nrets, histvars, calls,
                   last_isr, pubs, src, woken>>

\* pulse_ready = false; the wait starts with its timer set to TIMEOUT ms
ResetReady(t) ==
    /\ pc[t] = "reset"
    /\ pulse_ready' = FALSE
    /\ deadline' = [deadline EXCEPT ![t] = now + TimeoutNs]
    /\ pc' = [pc EXCEPT ![t] = "wait"]
    /\ cyc_pubs' = 0
    /\ cyc_cons' = 0
    /\ UNCHANGED <<modvars, envvars, isrvars, trigger, distance_cm, seen,
                   off, len, reg, nreads, nrets, histvars, calls,
                   last_isr, pubs, src, woken>>

\* the end of wait_event_interruptible_timeout in thread t
EndWait(t, why) ==
    /\ pc' = [pc EXCEPT ![t] = "check"]
    /\ wake' = [wake EXCEPT ![t] = why]
    /\ UNCHANGED <<modvars, envvars, isrvars, trigger, distance_cm, pulse_ready, seen,
                   off, len, deadline, reg, nreads, nrets,
                   d_used, tok, res, nret, out, prev, calls, obsvars>>

\* the wait ends because its condition pulse_ready is true
WaitReady(t) ==
    /\ pc[t] = "wait"
    /\ pulse_ready
    /\ EndWait(t, "ready")

\* a wait without the timer: wait_event_interruptible
WaitTimeout_never(t) ==
    /\ pc[t] = "wait"
    /\ ~pulse_ready
    /\ now < 0
    /\ EndWait(t, "timeout")

\* the wait ends because its timer expired with the condition false
WaitTimeout(t) ==
    /\ pc[t] = "wait"
    /\ ~pulse_ready
    /\ now >= deadline[t]
    /\ EndWait(t, "timeout")

\* the wait is interruptible: it ends because a signal is pending for the
\* calling thread, with the condition false
WaitSignal(t) ==
    /\ pc[t] = "wait"
    /\ ~pulse_ready
    /\ EndWait(t, "signal")

\* if (!pulse_ready) return -ETIMEDOUT;
TestReady(t) ==
    /\ pc[t] = "check"
    /\ IF ~pulse_ready
       THEN /\ Return(t, "timeout", 0 - ETIMEDOUT, <<>>)
            /\ UNCHANGED <<off, len, wake, d_used, tok, prev>>
       ELSE /\ pc' = [pc EXCEPT ![t] = "conv"]
            /\ UNCHANGED <<off, len, deadline, reg, nrets, histvars>>
    /\ UNCHANGED <<modvars, envvars, isrvars, trigger, distance_cm, pulse_ready, seen,
                   nreads, calls, obsvars>>

\* distance_cm = div64_s64(duration_ns, 58000ULL);
Convert(t) ==
    /\ pc[t] = "conv"
    /\ distance_cm' = div64_s64(duration_ns, NsPerCm)
    /\ reg' = [reg EXCEPT ![t] = div64_s64(duration_ns, NsPerCm)]
    /\ d_used' = [d_used EXCEPT ![t] = duration_ns]
    /\ src' = [src EXCEPT ![t] = pubs]
    /\ cyc_cons' = cyc_cons + 1
    /\ pc' = [pc EXCEPT ![t] = "range"]
    /\ UNCHANGED <<modvars, envvars, isrvars, trigger, pulse_ready, seen,
                   off, len, deadline, nreads, nrets,
                   wake, tok, res, nret, out, prev, calls,
                   last_isr, pubs, cyc_pubs, woken>>

\* if (distance_cm < 0 || distance_cm > 400) return -ERANGE;
RangeCheck(t, v) ==
    /\ pc[t] = "range"
    /\ v \in ReadDistance(t)
    /\ IF ~InRange(v)
       THEN /\ Return(t, "range", 0 - ERANGE, <<>>)
            /\ UNCHANGED <<off, len, wake, d_used, tok, prev>>
       ELSE /\ pc' = [pc EXCEPT ![t] = "fmt"]
            /\ UNCHANGED <<off, len, deadline, reg, nrets, histvars>>
    /\ UNCHANGED <<modvars, envvars, isrvars, trigger, distance_cm, pulse_ready, seen,
                   nreads, calls, obsvars>>

\* lines 68-79 with the offset advanced before not_copied is tested
FormatCopy_advance(t, n, v, fault) ==
    /\ pc[t] = "fmt"
    /\ n \in Lens
    /\ v \in ReadDistance(t)
    /\ len' = [len EXCEPT ![t] = n]
    /\ tok' = [tok EXCEPT ![t] = snprintf(v)]
    /\ off' = [off EXCEPT ![t] = off[t] + to_copy(n, v)]
    /\ IF fault /\ to_copy(n, v) > 0
       THEN Return(t, "fault", 0 - EFAULT, <<>>)
       ELSE Return(t, "ok", to_copy(n, v), SubSeq(snprintf(v), 1, to_copy(n, v)))
    /\ UNCHANGED <<modvars, envvars, isrvars, trigger, distance_cm, pulse_ready, seen,
                   nreads, wake, d_used, prev, calls, obsvars>>

\* lines 68-79: format, bound the count by len, copy to the caller (the copy
\* of a non-empty range may fault), advance the offset, return the count
FormatCopy(t, n, v, fault) ==
    /\ pc[t] = "fmt"
    /\ n \in Lens
    /\ v \in ReadDistance(t)
    /\ len' = [len EXCEPT ![t] = n]
    /\ tok' = [tok EXCEPT ![t] = snprintf(v)]
    /\ IF fault /\ to_copy(n, v) > 0
       THEN /\ Return(t, "fault", 0 - EFAULT, <<>>)
            /\ UNCHANGED off
       ELSE /\ off' = [off EXCEPT ![t] = off[t] + to_copy(n, v)]
            /\ Return(t, "ok", to_copy(n, v), SubSeq(snprintf(v), 1, to_copy(n, v)))
    /\ UNCHANGED <<modvars, envvars, isrvars, trigger, distance_cm, pulse_ready, seen,
                   nreads, wake, d_used, prev, calls, obsvars>>

(* --------------------------- specifications ---------------------------- *)

Init ==
    /\ mod = InitOrder[1]
    /\ acquired = <<>>
    /\ released = <<>>
    /\ trigger = 0
    /\ echo = 0
    /\ irq_pending = FALSE
    /\ now = 0
    /\ nticks = 0
    /\ nedges = 0
    /\ start_time = 0
    /\ end_time = 0
    /\ duration_ns = 0
    /\ distance_cm = 0
    /\ pulse_ready = FALSE
    /\ pc = [t \in Threads |-> "idle"]
    /\ off = [t \in Threads |-> 0]
    /\ len = [t \in Threads |-> 0]
    /\ deadline = [t \in Threads |-> 0]
    /\ reg = [t \in Threads |-> 0]
    /\ nreads = 0
    /\ nrets = 0
    /\ wake = [t \in Threads |-> "none"]
    /\ seen = [t \in Threads |-> <<>>]
    /\ d_used = [t \in Threads |-> NoDur]
    /\ tok = [t \in Threads |-> <<>>]
    /\ res = [t \in Threads |-> "none"]
    /\ nret = [t \in Threads |-> 0]
    /\ out = [t \in Threads |-> <<>>]
    /\ prev = [t \in Threads |-> "none"]
    /\ calls = [t \in Threads |-> 0]
    /\ last_isr = "none"
    /\ pubs = 0
    /\ cyc_pubs = 0
    /\ cyc_cons = 0
    /\ src = [t \in Threads |-> 0]
    /\ woken = [t \in Threads |-> FALSE]

\* the steps of get_distance after its entry, in thread t
ReadStep(t) ==
    \/ TriggerHigh(t)
    \/ TriggerLow(t)
    \/ ResetReady(t)
    \/ WaitReady(t)
    \/ WaitTimeout(t)
    \/ WaitSignal(t)
    \/ TestReady(t)
    \/ Convert(t)
    \/ \E v \in ReadDistance(t) : RangeCheck(t, v)
    \/ \E n \in Lens, v \in ReadDistance(t), fault \in BOOLEAN : FormatCopy(t, n, v, fault)

\* everything but the entry of get_distance
Others ==
    \/ InitCallOk
    \/ InitCallFail
    \/ ExitCall
    \/ \E d \in Deltas : Tick(d)
    \/ EchoEdge
    \/ EchoISR
    \/ \E t \in Threads : ReadStep(t)

\* .read = get_distance with nothing serialising the callers: any thread may
\* enter while another is inside
Next ==
    \/ \E t \in Threads : ReadEnter(t)
    \/ Others

Spec == Init /\ [][Next]_vars

\* a thread enters get_distance only while no other thread is inside
SerialEnter(t) ==
    /\ \A u \in Threads : pc[u] = "idle"
    /\ ReadEnter(t)

\* the single-flight use the design assumes: the callers are serialised
NextSerial ==
    \/ \E t \in Threads : SerialEnter(t)
    \/ Others

SpecSerial == Init /\ [][NextSerial]_vars

\* time passes while thread t sleeps in the wait, up to the expiry of its timer
\* (the timer armed by wait_event_interruptible_timeout cannot be cancelled or put
\* off, whatever the echo line does)
TimePasses(t) ==
    /\ pc[t] = "wait"
    /\ now < deadline[t]
    /\ now' = deadline[t]
    /\ UNCHANGED <<echo, irq_pending, nticks, nedges>>
    /\ UNCHANGED <<modvars, isrvars, trigger, distance_cm, pulse_ready, seen,
                   callvars, histvars, calls, obsvars>>

\* the steps of get_distance that need nothing but the processor: all of them except
\* the end of the wait by a signal, which the caller's environment may never send
Progress(t) ==
    \/ TriggerHigh(t)
    \/ TriggerLow(t)
    \/ ResetReady(t)
    \/ WaitReady(t)
    \/ WaitTimeout(t)
    \/ TestReady(t)
    \/ Convert(t)
    \/ \E v \in ReadDistance(t) : RangeCheck(t, v)
    \/ \E n \in Lens, v \in ReadDistance(t), fault \in BOOLEAN : FormatCopy(t, n, v, fault)

\* here the clock moves only by the sleep of a waiting read, to the expiry of its
\* timer; the echo line and the handler remain free to act at any point
NextFair ==
    \/ InitCallOk
    \/ InitCallFail
    \/ ExitCall
    \/ EchoEdge
    \/ EchoISR
    \/ \E t \in Threads : SerialEnter(t)
    \/ \E t \in Threads : ReadStep(t)
    \/ \E t \in Threads : TimePasses(t)

\* serialised reads, a scheduler that lets a runnable thread run, and a timer that fires
SpecFair ==
    /\ Init
    /\ [][NextFair]_vars
    /\ \A t \in Threads : WF_vars(Progress(t)) /\ WF_vars(TimePasses(t))

(* ------------------------------- claims -------------------------------- *)

Errors == {"timeout", "range", "fault"}

\* the number a token's leading decimal digits denote
DigitValue(c) == CHOOSE i \in 0..9 : DigitChars[i + 1] = c

RECURSIVE ParseDigits(_, _)
ParseDigits(s, acc) ==
    IF s = <<>> \/ Head(s) \notin Range(DigitChars) THEN acc
    ELSE ParseDigits(Tail(s), 10 * acc + DigitValue(Head(s)))

TokenValue(s) == ParseDigits(s, 0)

\* the decimal digits at the head of a token
RECURSIVE NumDigits(_)
NumDigits(s) ==
    IF s = <<>> \/ Head(s) \notin Range(DigitChars) THEN 0 ELSE 1 + NumDigits(Tail(s))

\* a duration whose quotient by 58000, truncated toward zero, is below 0 or above 400
OutOfRange(d) == d <= 0 - NsPerCm \/ d >= (MaxDistance + 1) * NsPerCm

\* thread t has finished a call that went through the measurement
Measured(t) == pc[t] = "idle" /\ res[t] \in Errors \cup {"ok"}

\* C1: a measurement whose window (trigger pulse to expiry of the wait) holds exactly one
\* rising edge and then one falling edge handled by echo_isr does not return Timeout.
C1_OnePairOneSignal ==
    \A t \in Threads :
        (Measured(t) /\ wake[t] = "timeout" /\ seen[t] = <<"R", "F">>) => res[t] # "timeout"

\* C2: a read whose converted distance is below 0 or above 400 returns RangeError and
\* never a Completed result; every token returned as a success carries a distance in
\* [0, 400] (single measurement in flight).
C2_OutOfRangeIsRangeError ==
    \A t \in Threads :
        /\ (Measured(t) /\ d_used[t] # NoDur /\ OutOfRange(d_used[t])) => res[t] = "range"
        /\ res[t] = "ok" =>
              /\ d_used[t] # NoDur
              /\ ~OutOfRange(d_used[t])
              /\ TokenValue(tok[t]) \in 0..MaxDistance

\* a read converted an out-of-range duration and returned RangeError
C2_Witness ==
    \E t \in Threads : res[t] = "range" /\ d_used[t] # NoDur /\ OutOfRange(d_used[t])

\* C3: a read returns Timeout only when the wait ended by the expiry of its 50 ms timer
\* (not by a signal), and on Timeout no conversion is performed.
C3_TimeoutOnlyAfterExpiry ==
    \A t \in Threads : res[t] = "timeout" => (wake[t] = "timeout" /\ d_used[t] = NoDur)

\* C4: when echo_isr handles no falling edge between the trigger pulse of a read and the
\* read's test of pulse_ready, the read returns Timeout, once, with pulse_ready false at
\* the return; and pulse_ready is false when a cycle begins (the step that starts a wait).
C4_NoFallTimeoutOnce ==
    [][\A t \in Threads :
          /\ (pc[t] = "check" /\ pc'[t] # "check" /\ "F" \notin Range(seen[t])) =>
                /\ pc'[t] = "idle"
                /\ res'[t] = "timeout"
                /\ nret'[t] = 0 - ETIMEDOUT
                /\ nrets' = nrets + 1
                /\ d_used'[t] = NoDur
                /\ pulse_ready' = FALSE
          /\ (pc[t] # "wait" /\ pc'[t] = "wait") => pulse_ready' = FALSE]_vars

\* a read whose echo rose and never fell has timed out on its timer
C4_Witness ==
    \E t \in Threads :
        res[t] = "timeout" /\ wake[t] = "timeout" /\ seen[t] = <<"R">> /\ pc[t] = "idle"

\* C5 as stated: the read that follows a Completed read on the same file returns zero
\* bytes and performs no measurement.
C5_EofAfterCompleted ==
    [][\A t \in Threads :
          (calls'[t] # calls[t] /\ res[t] = "ok") =>
              /\ pc'[t] = "idle"
              /\ res'[t] = "eof"
              /\ nret'[t] = 0
              /\ trigger' = trigger
              /\ pulse_ready' = pulse_ready
              /\ off'[t] = 0]_vars

\* C5 amended: the read that follows a Completed read which returned at least one byte
\* returns zero bytes, and does not touch the trigger line or pulse_ready, nor wait.
C5_EofAfterDelivered ==
    [][\A t \in Threads :
          (calls'[t] # calls[t] /\ res[t] = "ok" /\ nret[t] > 0) =>
              /\ pc'[t] = "idle"
              /\ res'[t] = "eof"
              /\ nret'[t] = 0
              /\ trigger' = trigger
              /\ pulse_ready' = pulse_ready
              /\ off'[t] = 0]_vars

\* a read returned end-of-stream right after a Completed read
C5_Witness == \E t \in Threads : res[t] = "eof" /\ prev[t] = "ok" /\ calls[t] = 2

\* C6: at most one read is between its entry and its return.
C6_SingleFlight == Cardinality({t \in Threads : pc[t] # "idle"}) <= 1

\* C7: the read that follows a read ended in Timeout, RangeError or CopyFault finds the
\* offset at zero and enters the measurement; the trigger line is low unless a read is
\* inside its pulse; a waiting read has its timer set.
C7_CleanAfterError ==
    /\ [][\A t \in Threads :
             (calls'[t] # calls[t] /\ res[t] \in Errors) =>
                 (off[t] = 0 /\ pc'[t] = "trig_hi" /\ res'[t] = "running")]_vars
    /\ []((\A t \in Threads : pc[t] # "trig_lo") => trigger = 0)
    /\ [](\A t \in Threads : pc[t] = "wait" => deadline[t] > 0)

\* a read is in its wait right after a read that ended in an error
C7_Witness == \E t \in Threads : prev[t] \in Errors /\ pc[t] = "wait"

Reverse(s) == [i \in 1..Len(s) |-> s[Len(s) + 1 - i]]

\* C8: a failed hcsr04_init has released exactly what it acquired, in reverse order.
C8_InitReleasesReverse == mod = "failed" => released = Reverse(acquired)

\* C9: a read that consumed a duration d with 0 <= d/58000 <= 400 reports exactly the
\* integer quotient of d by 58000 (single measurement in flight).
C9_ExactQuotient ==
    \A t \in Threads :
        /\ (Measured(t) /\ d_used[t] # NoDur /\ ~OutOfRange(d_used[t])) => res[t] # "range"
        /\ res[t] = "ok" =>
              /\ TokenValue(tok[t]) * NsPerCm <= d_used[t]
              /\ d_used[t] < (TokenValue(tok[t]) + 1) * NsPerCm

\* a read reported 400 for a duration that is no multiple of 58000
C9_Witness ==
    \E t \in Threads :
        res[t] = "ok" /\ TokenValue(tok[t]) = MaxDistance /\ d_used[t] % NsPerCm # 0

\* C10: on success with a buffer at least as long as the token, the count returned is
\* the token's length (digits, "cm", line terminator) and no byte beyond it is delivered.
C10_CountIsTokenLength ==
    \A t \in Threads :
        (res[t] = "ok" /\ len[t] >= NumDigits(tok[t]) + 3) =>
            /\ nret[t] = NumDigits(tok[t]) + 3
            /\ NUL \notin Range(out[t])

\* C11: every call of get_distance eventually returns, whatever the echo line does
\* (reads serialised, the timer of the wait fires).
C11_ReadReturns == \A t \in Threads : (pc[t] # "idle") ~> (pc[t] = "idle")

\* a read returned Timeout although the echo line never moved
C11_Witness ==
    \E t \in Threads :
        pc[t] = "idle" /\ res[t] = "timeout" /\ wake[t] = "timeout" /\ nedges = 0

\* C12: the reset of pulse_ready comes before the trigger pulse, so the readiness about
\* to be erased by the reset is never one set by a falling edge handled since this
\* read's trigger pulse began.
C12_ResetBeforeTrigger ==
    \A t \in Threads :
        (pc[t] = "reset" /\ pulse_ready) => "F" \notin Range(seen[t])

\* C13: every published duration is measured from the start_time written by the
\* invocation that handled the rising edge just before: no invocation publishes after
\* sampling the line low without a rising-edge invocation immediately before it.
C13_PairedDuration == last_isr # "F_unpaired"

\* positions of get_distance after its reset of pulse_ready
AfterReset == {"wait", "check", "conv", "range", "fmt"}

\* C14: in a measurement cycle (from a reset of pulse_ready to the next) the handler
\* publishes at most once and the published duration is read at line 61 at most once.
C14_OncePerCycle ==
    (\E t \in Threads : pc[t] \in AfterReset) => (cyc_pubs <= 1 /\ cyc_cons <= 1)

\* C15: no wake-up is lost: a read during whose wait a falling edge was handled does
\* not return Timeout, and a read converts a duration only after a publication.
C15_NoLostWakeup ==
    \A t \in Threads :
        /\ (pc[t] = "idle" /\ woken[t]) => res[t] # "timeout"
        /\ d_used[t] # NoDur => pubs > 0

\* C16: no two reads convert the duration published by the same falling-edge event.
C16_OneWaiterPerEdge ==
    \A t, u \in Threads :
        (t # u /\ pc[t] = "idle" /\ pc[u] = "idle" /\ src[t] # 0 /\ src[u] # 0)
            => src[t] # src[u]

\* C17: with reads serialised, a Completed read converted a duration whose rising and
\* falling edges were both handled after that read's trigger pulse began.
C17_OwnEcho ==
    \A t \in Threads :
        (pc[t] = "idle" /\ res[t] = "ok" /\ d_used[t] # NoDur) =>
            \E i \in 1..(Len(seen[t]) - 1) : seen[t][i] = "R" /\ seen[t][i + 1] = "F"

\* C18: with reads running concurrently, a returned token carries the in-range value
\* this read converted from the duration it read, and a read during whose wait a
\* falling edge was handled does not return Timeout.
C18_OwnValueOwnEdge ==
    \A t \in Threads :
        /\ (pc[t] = "idle" /\ res[t] = "ok") =>
              /\ TokenValue(tok[t]) \in 0..MaxDistance
              /\ TokenValue(tok[t]) = div64_s64(d_used[t], NsPerCm)
        /\ (pc[t] = "idle" /\ res[t] = "timeout") => ~woken[t]

\* C19: duration_ns is never negative: every invocation that sampled the line low left
\* end_time >= start_time, and no read holds a negative duration or distance, so the
\* test distance_cm < 0 of line 63 never succeeds.
C19_DurationNonNegative ==
    /\ duration_ns >= 0
    /\ distance_cm >= 0
    /\ last_isr \in {"F", "F_unpaired"} => end_time >= start_time
    /\ \A t \in Threads :
          /\ d_used[t] = NoDur \/ d_used[t] >= 0
          /\ reg[t] >= 0
          /\ (d_used[t] # NoDur /\ res[t] = "range") =>
                d_used[t] >= (MaxDistance + 1) * NsPerCm

\* a rising edge handled at a positive time, its falling edge handled later, and the
\* positive duration converted by a read
C19_Witness ==
    /\ last_isr = "F"
    /\ start_time > 0
    /\ end_time > start_time
    /\ \E t \in Threads : d_used[t] = end_time - start_time

\* C20: the offset of an open file is a consumed marker: it is positive exactly after
\* a read that returned a positive count, equals that count, is zero after an
\* end-of-stream read, after an error and during a measurement; end-of-stream follows
\* a Completed read and is never repeated; and a Completed read of length 0 measured,
\* returned 0 and left the offset zero.
C20_OffsetIsConsumedMark ==
    \A t \in Threads :
        /\ pc[t] # "idle" => off[t] = 0
        /\ pc[t] = "idle" =>
              /\ off[t] > 0 <=> (res[t] = "ok" /\ nret[t] > 0)
              /\ res[t] = "ok" => off[t] = nret[t]
              /\ res[t] = "eof" => (off[t] = 0 /\ prev[t] = "ok" /\ d_used[t] = NoDur)
              /\ res[t] \in Errors => off[t] = 0
              /\ (res[t] = "ok" /\ len[t] = 0) =>
                    (nret[t] = 0 /\ off[t] = 0 /\ d_used[t] # NoDur)

\* a Completed read of length 0: it measured, returned 0 and left the offset zero
C20_Witness ==
    \E t \in Threads :
        /\ pc[t] = "idle"
        /\ res[t] = "ok"
        /\ len[t] = 0
        /\ nret[t] = 0
        /\ off[t] = 0
        /\ d_used[t] # NoDur

====
